---------------------------- MODULE Spec2Model ----------------------------
(***************************************************************************)
(* Storm core: application namespace codes (app.rs), chunks (chunk.rs),    *)
(* containers (container.rs), tagged identifiers (container.rs, mesg.rs)   *)
(* and the peer-to-peer message set (p2p.rs).                              *)
(*                                                                         *)
(* The module holds eight state machines over one set of variables; each   *)
(* specification drives its own variables and leaves the others at rest.   *)
(*   SpecApp     StormApp <-> u16 conversions and their wire form          *)
(*   SpecCommit  the three identifier kinds computed over the same bytes   *)
(*   SpecChunk   construction of chunks, chunk ids and containers          *)
(*   Spec        two peers running the request-response exchanges          *)
(*   SpecPull    a peer pulling a container and reassembling its payload   *)
(*   SpecWire    the messages encoded to the wire and decoded from it      *)
(*   SpecMut     the holder of a Chunk using its public interface          *)
(*   SpecMesgId  the identifiers of topics and of messages                 *)
(***************************************************************************)
EXTENDS Integers, Sequences, FiniteSets, TLC

VARIABLES
    \* --- StormApp conversions (app.rs) ---
    app_pc,      \* the conversion applied last
    app_start,   \* the value the run started from: [kind, app, code]
    app,         \* the current StormApp value
    code,        \* the current u16 code
    wire,        \* the current strict-encoded bytes
    \* --- identifiers (container.rs, mesg.rs, chunk.rs) ---
    id_payload,  \* the bytes being committed to
    ids,         \* the identifier computed under each kind, <<>> when not yet
    \* --- chunks and containers (chunk.rs, container.rs) ---
    ck_op,       \* the operation called last
    ck_in,       \* its argument
    ck_out,      \* its result
    \* --- two peers exchanging messages (p2p.rs) ---
    b_payload,    \* the bytes peer B published as a container
    b_chunk_size, \* the chunk size B split them with
    a_out,        \* requests peer A has outstanding: [xid, req, pending]
    net_req,      \* requests in flight from A to B: [xid, origin, msg]
    net_resp,     \* messages in flight from B to A: [xid, origin, msg];
                  \* xid 0 for a message B sent unasked
    a_container,  \* the manifest A received, <<>> when none
    a_chunks,     \* the chunks A received: [chunk_id, chunk]
    a_result,     \* the outcome of A's last reassembly, <<>> when none
    xlog,         \* history: per exchange, the request, what B sent for it,
                  \* what A attributed to it, and how it ended
    clashed,      \* history: A had two requests with a common correlation
                  \* key outstanding at once
    \* --- a message put on the wire and read back (p2p.rs) ---
    w_pc,        \* "built", "encoded" or "decoded"
    w_msg,       \* the message built
    w_wire,      \* the result of encoding it
    w_out,       \* the result of decoding the encoding
    \* --- a constructed chunk in use (chunk.rs) ---
    mc_op,       \* the operation applied last
    mc_built,    \* the bytes the chunk was constructed from
    mc_id,       \* chunk_id() taken right after construction
    mc_chunk,    \* the chunk
    \* --- a topic and a message committed to (mesg.rs) ---
    tm_topic,    \* the Topic
    tm_mesg,     \* the Mesg
    tm_ids       \* their mesg_id(), <<>> when not yet taken

appVars == <<app_pc, app_start, app, code, wire>>
idVars == <<id_payload, ids>>
ckVars == <<ck_op, ck_in, ck_out>>
p2pVars ==
    <<b_payload, b_chunk_size, a_out, net_req, net_resp, a_container,
      a_chunks, a_result, xlog, clashed>>
wireVars == <<w_pc, w_msg, w_wire, w_out>>
mutVars == <<mc_op, mc_built, mc_id, mc_chunk>>
tmVars == <<tm_topic, tm_mesg, tm_ids>>
vars == <<appVars, idVars, ckVars, p2pVars, wireVars, mutVars, tmVars>>

\* What each state machine leaves alone.
appRest == <<idVars, ckVars, p2pVars, wireVars, mutVars, tmVars>>
idRest == <<appVars, ckVars, p2pVars, wireVars, mutVars, tmVars>>
ckRest == <<appVars, idVars, p2pVars, wireVars, mutVars, tmVars>>
p2pRest == <<appVars, idVars, ckVars, wireVars, mutVars, tmVars>>
wireRest == <<appVars, idVars, ckVars, p2pVars, mutVars, tmVars>>
mutRest == <<appVars, idVars, ckVars, p2pVars, wireVars, tmVars>>
tmRest == <<appVars, idVars, ckVars, p2pVars, wireVars, mutVars>>

(***************************************************************************)
(* app.rs                                                                  *)
(***************************************************************************)
STORM_APP_SYSTEM == 0
STORM_APP_CHAT == 1
STORM_APP_FILE_TRANSFER == 2
STORM_APP_STORAGE == 3
STORM_APP_SEARCH == 4
STORM_APP_RGB_CONTRACTS == 16
STORM_APP_RGB_TRANSFERS == 17
STORM_APP_VENDOR_MASK == 32768

U16 == 0 .. 65535

\* enum StormApp: seven unit variants and two variants carrying a u16.
\* A unit variant is written with n = 0.
Named(v) == [variant |-> v, n |-> 0]
System == Named("System")
Chat == Named("Chat")
FileTransfer == Named("FileTransfer")
Storage == Named("Storage")
Search == Named("Search")
RgbContracts == Named("RgbContracts")
RgbTransfers == Named("RgbTransfers")
Future(n) == [variant |-> "Future", n |-> n]
Vendor(n) == [variant |-> "Vendor", n |-> n]

NamedApps ==
    {System, Chat, FileTransfer, Storage, Search, RgbContracts, RgbTransfers}

\* Whether a is a value of the enum: the payload of Future and Vendor is any
\* u16.
IsStormApp(a) ==
    \/ a \in NamedApps
    \/ a.variant \in {"Future", "Vendor"} /\ a.n \in U16

\* app_code with the codes of Storage and FileTransfer exchanged.
app_code_swapped(a) ==
    CASE a.variant = "System" -> STORM_APP_SYSTEM
      [] a.variant = "Chat" -> STORM_APP_CHAT
      [] a.variant = "Storage" -> STORM_APP_FILE_TRANSFER
      [] a.variant = "FileTransfer" -> STORM_APP_STORAGE
      [] a.variant = "Search" -> STORM_APP_SEARCH
      [] a.variant = "RgbContracts" -> STORM_APP_RGB_CONTRACTS
      [] a.variant = "RgbTransfers" -> STORM_APP_RGB_TRANSFERS
      [] a.variant = "Future" -> a.n
      [] a.variant = "Vendor" -> a.n

\* StormApp::app_code
app_code(a) ==
    CASE a.variant = "System" -> STORM_APP_SYSTEM
      [] a.variant = "Chat" -> STORM_APP_CHAT
      [] a.variant = "Storage" -> STORM_APP_STORAGE
      [] a.variant = "FileTransfer" -> STORM_APP_FILE_TRANSFER
      [] a.variant = "Search" -> STORM_APP_SEARCH
      [] a.variant = "RgbContracts" -> STORM_APP_RGB_CONTRACTS
      [] a.variant = "RgbTransfers" -> STORM_APP_RGB_TRANSFERS
      [] a.variant = "Future" -> a.n
      [] a.variant = "Vendor" -> a.n

\* c & mask for a one-bit mask (mask a power of two), on 16-bit values.
BitAnd1(c, mask) == IF (c \div mask) % 2 = 1 THEN mask ELSE 0

\* The guard of the vendor arm with an off-by-one on the boundary code.
VendorArmStrict(c) == c > STORM_APP_VENDOR_MASK

\* The guard `vendor & STORM_APP_VENDOR_MASK > 0` of the vendor arm.
VendorArm(c) == BitAnd1(c, STORM_APP_VENDOR_MASK) > 0

\* From<u16> with the vendor arm left out: every unregistered code is Future.
StormApp_from_no_vendor(c) ==
    CASE c = STORM_APP_SYSTEM -> System
      [] c = STORM_APP_CHAT -> Chat
      [] c = STORM_APP_STORAGE -> Storage
      [] c = STORM_APP_FILE_TRANSFER -> FileTransfer
      [] c = STORM_APP_SEARCH -> Search
      [] c = STORM_APP_RGB_CONTRACTS -> RgbContracts
      [] c = STORM_APP_RGB_TRANSFERS -> RgbTransfers
      [] OTHER -> Future(c)

\* impl From<u16> for StormApp: the arms are tried in order.
StormApp_from(c) ==
    CASE c = STORM_APP_SYSTEM -> System
      [] c = STORM_APP_CHAT -> Chat
      [] c = STORM_APP_STORAGE -> Storage
      [] c = STORM_APP_FILE_TRANSFER -> FileTransfer
      [] c = STORM_APP_SEARCH -> Search
      [] c = STORM_APP_RGB_CONTRACTS -> RgbContracts
      [] c = STORM_APP_RGB_TRANSFERS -> RgbTransfers
      [] OTHER -> IF VendorArm(c) THEN Vendor(c) ELSE Future(c)

\* u16::strict_encode: two bytes, little-endian.
u16_strict_encode(c) == <<c % 256, c \div 256>>

\* u16::strict_decode of exactly two bytes.
u16_strict_decode(bytes) == bytes[1] + 256 * bytes[2]

\* impl StrictEncode for StormApp
StormApp_strict_encode(a) == u16_strict_encode(app_code(a))

\* impl StrictDecode for StormApp
StormApp_strict_decode(bytes) == StormApp_from(u16_strict_decode(bytes))

(***************************************************************************)
(* Identifiers: container.rs, mesg.rs, chunk.rs                            *)
(***************************************************************************)
\* static MIDSTATE_CONTAINER_ID
MIDSTATE_CONTAINER_ID ==
    <<12, 61, 136, 60, 191, 129, 135, 229, 141, 35, 41, 161, 203, 125, 0, 101,
      109, 136, 50, 236, 7, 101, 59, 39, 148, 207, 63, 236, 255, 48, 24, 171>>

\* static MIDSTATE_MESG_ID
MIDSTATE_MESG_ID ==
    <<12, 61, 136, 60, 191, 129, 135, 229, 141, 35, 41, 161, 203, 125, 0, 101,
      109, 136, 50, 236, 7, 101, 59, 39, 148, 207, 63, 236, 255, 48, 24, 171>>

\* The initial state of SHA-256, the state sha256::Hash::engine() starts in.
SHA256_IV ==
    <<106, 9, 230, 103, 187, 103, 174, 133, 60, 110, 243, 114, 165, 79, 245, 58,
      81, 14, 82, 127, 155, 5, 104, 140, 31, 131, 217, 171, 91, 224, 205, 25>>

\* sha256::HashEngine::from_midstate(midstate, length)
HashEngine_from_midstate(midstate, length) ==
    [midstate |-> midstate, length |-> length]

\* ChunkId::engine(): ChunkId is the untagged sha256::Hash.
ChunkId_engine == HashEngine_from_midstate(SHA256_IV, 0)

\* impl sha256t::Tag for ContainerIdTag
ContainerIdTag_engine == HashEngine_from_midstate(MIDSTATE_CONTAINER_ID, 64)

\* impl sha256t::Tag for MesgIdTag
MesgIdTag_engine == HashEngine_from_midstate(MIDSTATE_MESG_ID, 64)

\* The digest of an engine fed with bytes. SHA-256 is taken as collision
\* free: the digest determines, and is determined by, the engine's state and
\* the bytes fed, so it is written as that triple.
from_engine(engine, bytes) == <<engine.midstate, engine.length, bytes>>

\* ChunkId::hash(msg)
ChunkId_hash(msg) == from_engine(ChunkId_engine, msg)

\* impl CommitVerify<Msg, PrehashedProtocol> for ContainerId
ContainerId_commit(msg) == from_engine(ContainerIdTag_engine, msg)

\* impl CommitVerify<Msg, PrehashedProtocol> for MesgId
MesgId_commit(msg) == from_engine(MesgIdTag_engine, msg)

----------------------------------------------------------------------------
\* Bytes the models draw payloads from, and the longest payload committed.
SampleBytes == {0, 1, 255}
MaxPayloadLen == 3

RECURSIVE BytesUpTo(_)
BytesUpTo(n) ==
    IF n = 0 THEN {<<>>}
    ELSE LET shorter == BytesUpTo(n - 1)
         IN shorter \cup {Append(b, x) : b \in {s \in shorter : Len(s) = n - 1},
                                          x \in SampleBytes}

NoIds == [chunk |-> <<>>, container |-> <<>>, mesg |-> <<>>]

IdIdle ==
    /\ id_payload = <<>>
    /\ ids = NoIds

(***************************************************************************)
(* Vectors. A Vec<T> too long to write out is held run-length encoded: the *)
(* items of head followed by n copies of fill. Two equal representations   *)
(* are equal vectors.                                                      *)
(***************************************************************************)
Plain(items) == [head |-> items, fill |-> 0, n |-> 0]
Run(fill, n) == IF n = 0 THEN Plain(<<>>) ELSE [head |-> <<>>, fill |-> fill, n |-> n]
Prepend(prefix, v) == [v EXCEPT !.head = prefix \o @]

\* Vec::len
VecLen(v) == Len(v.head) + v.n

\* u16::MAX and u24::MAX, the most items a Vec and a MediumVec encode.
U16_MAX == 2^16 - 1
U24_MAX == 2^24 - 1

\* The little-endian bytes of x, `width` of them.
RECURSIVE LeBytes(_, _)
LeBytes(x, width) ==
    IF width = 0 THEN <<>> ELSE <<x % 256>> \o LeBytes(x \div 256, width - 1)

Ok(v) == [ok |-> TRUE, val |-> v]
Err(x) == [ok |-> FALSE, err |-> x]

\* MediumVec::try_from that cuts an oversized vector down to u24::MAX items.
MediumVec_try_from_truncating(vec) ==
    IF VecLen(vec) > U24_MAX
    THEN Ok([vec EXCEPT !.n = U24_MAX - Len(vec.head)])
    ELSE Ok(vec)

\* MediumVec::try_from(vec): refuses more than u24::MAX items.
MediumVec_try_from(vec) ==
    IF VecLen(vec) > U24_MAX
    THEN Err("ExceedMaxItems")
    ELSE Ok(vec)

\* value.strict_serialize() for a value of a byte-vector type: the length
\* prefix of the type, then the bytes. Vec<u8> has a two-byte prefix and
\* refuses more than u16::MAX items, MediumVec<u8> a three-byte prefix.
strict_serialize(value) ==
    CASE value.type = "Vec<u8>" ->
            IF VecLen(value.bytes) > U16_MAX
            THEN Err("ExceedMaxItems")
            ELSE Ok(Prepend(LeBytes(VecLen(value.bytes), 2), value.bytes))
      [] value.type = "MediumVec<u8>" ->
            Ok(Prepend(LeBytes(VecLen(value.bytes), 3), value.bytes))

(***************************************************************************)
(* chunk.rs                                                                *)
(***************************************************************************)
\* impl TryFrom<&[u8]> for Chunk
Chunk_try_from_slice(slice) == MediumVec_try_from(slice)

\* impl TryFrom<&Vec<u8>> for Chunk
Chunk_try_from_vec_ref(vec) == MediumVec_try_from(vec)

\* impl TryFrom<Vec<u8>> for Chunk
Chunk_try_from_vec(vec) == MediumVec_try_from(vec)

\* impl TryToChunk for amplify::Holder<B, UseStrictEncoding>
try_to_chunk(value) ==
    LET serialized == strict_serialize(value)
        medium == IF serialized.ok THEN MediumVec_try_from(serialized.val)
                  ELSE serialized
    IN IF medium.ok THEN Ok(medium.val) ELSE Err("TooLargeData")

\* Chunk::chunk_id that commits to the length of the chunk alone.
Chunk_chunk_id_of_len(chunk) ==
    from_engine(ChunkId_engine, Plain(LeBytes(VecLen(chunk), 3)))

\* Chunk::chunk_id: the untagged hash of the chunk's strict encoding, a
\* three-byte length and the bytes.
Chunk_chunk_id(chunk) ==
    from_engine(ChunkId_engine, Prepend(LeBytes(VecLen(chunk), 3), chunk))

\* impl Deref for Chunk: the bytes, read through &MediumVec<u8>.
Chunk_deref(chunk) == chunk

\* impl AsRef<[u8]> for Chunk
Chunk_as_ref(chunk) == chunk

\* derive(Clone) for Chunk
Chunk_clone(chunk) == chunk

\* derive(Default) for Chunk: the empty chunk.
Chunk_default == Plain(<<>>)

\* impl DerefMut for Chunk: deref_mut() is &mut self.0, so a MediumVec
\* written through the reference is the chunk's contents from then on.
Chunk_deref_mut_write(chunk, written) == written

\* A call that does not return: the thread panics with the message.
Panic(msg) == [ok |-> FALSE, panic |-> msg]
IsPanic(r) == "panic" \in DOMAIN r

\* ChunkIdExt::try_from(data): the digest of the strict encoding of data,
\* or the error of the encoding.
ChunkId_try_from(data) ==
    LET encoded == strict_serialize(data)
    IN IF encoded.ok THEN Ok(from_engine(ChunkId_engine, encoded.val))
       ELSE encoded

\* ChunkIdExt::with_fragments(a, b): the engine is fed the encoding of a,
\* then that of b; `?` returns the first error.
ChunkId_with_fragments(a, b) ==
    LET first == strict_serialize(a)
        second == strict_serialize(b)
    IN IF ~first.ok THEN first
       ELSE IF ~second.ok THEN second
       ELSE Ok(from_engine(ChunkId_engine, <<first.val, second.val>>))

\* ChunkIdExt::with_fixed_fragments(a, b): as with_fragments, with .expect
\* on each encoding. The value is the ChunkId returned (under Ok), or the
\* panic.
ChunkId_with_fixed_fragments(a, b) ==
    LET first == strict_serialize(a)
        second == strict_serialize(b)
    IN IF ~first.ok \/ ~second.ok
       THEN Panic("chunk data must be strict-encodable")
       ELSE Ok(from_engine(ChunkId_engine, <<first.val, second.val>>))

\* The i-th item of a vector, and the vector without its first k items.
ItemAt(v, i) == IF i <= Len(v.head) THEN v.head[i] ELSE v.fill
DropItems(v, k) ==
    IF k <= Len(v.head)
    THEN [v EXCEPT !.head = SubSeq(@, k + 1, Len(@))]
    ELSE Run(v.fill, v.n - (k - Len(v.head)))

\* impl TryFromChunk for amplify::Holder<B, UseStrictEncoding>, B = Vec<u8>:
\* B::strict_deserialize(chunk) reads a two-byte count and as many bytes;
\* too few bytes, or bytes left over, is an error.
try_from_chunk(chunk) ==
    IF VecLen(chunk) < 2 THEN Err("UnexpectedEof")
    ELSE LET count == ItemAt(chunk, 1) + 256 * ItemAt(chunk, 2)
             bytes == DropItems(chunk, 2)
         IN IF VecLen(bytes) < count THEN Err("UnexpectedEof")
            ELSE IF VecLen(bytes) > count THEN Err("DataNotEntirelyConsumed")
            ELSE Ok([type |-> "Vec<u8>", bytes |-> bytes])

(***************************************************************************)
(* container.rs                                                            *)
(***************************************************************************)
\* struct Container, its chunks field built with MediumVec::try_from.
Container_new(version, mime, info, size, chunk_ids) ==
    LET chunks == MediumVec_try_from(chunk_ids)
    IN IF chunks.ok
       THEN Ok([version |-> version, mime |-> mime, info |-> info,
                size |-> size, chunks |-> chunks.val])
       ELSE chunks

\* Container::strict_encode: the fields in order; the chunks as a three-byte
\* count and the ids.
Container_strict_encode(c) ==
    [version |-> LeBytes(c.version, 2), mime |-> c.mime, info |-> c.info,
     size |-> LeBytes(c.size, 8),
     count |-> LeBytes(VecLen(c.chunks), 3), ids |-> c.chunks]

LeValue(bytes) ==
    LET RECURSIVE val(_)
        val(i) == IF i > Len(bytes) THEN 0 ELSE bytes[i] + 256 * val(i + 1)
    IN val(1)

\* Container::strict_decode: reads the fields back; the three-byte count says
\* how many ids follow; fewer ids in the input, or bytes left over, is an
\* error.
Container_strict_decode(w) ==
    IF VecLen(w.ids) < LeValue(w.count)
    THEN Err("UnexpectedEof")
    ELSE IF VecLen(w.ids) > LeValue(w.count)
    THEN Err("DataNotEntirelyConsumed")
    ELSE Ok([version |-> LeValue(w.version), mime |-> w.mime, info |-> w.info,
             size |-> LeValue(w.size), chunks |-> w.ids])

\* Container::container_id: the tagged hash of the strict encoding.
Container_container_id(c) ==
    from_engine(ContainerIdTag_engine, Container_strict_encode(c))

(***************************************************************************)
(* mesg.rs                                                                 *)
(***************************************************************************)
\* struct Topic
Topic(body, container_ids) == [body |-> body, container_ids |-> container_ids]

\* struct Mesg
Mesg(parent_id, body, container_ids) ==
    [parent_id |-> parent_id, body |-> body, container_ids |-> container_ids]

\* One byte of an encoded record. An identifier inside an encoded record is
\* kept whole, as one item standing for its 32 bytes.
Byte(b) == <<b>>
Bytes(seq) == [i \in 1 .. Len(seq) |-> Byte(seq[i])]

IsByte(item) == Len(item) = 1

\* The length in bytes of a MesgId, a ContainerId and a ChunkId.
ID_LEN == 32

\* An identifier given by its ID_LEN bytes rather than computed from a
\* value: any ID_LEN bytes are a MesgId (a tuple struct over the hash,
\* StrictDecode derived).  A computed identifier is a triple, this a pair.
RawId(bytes) == <<"raw", bytes>>
IsRawId(id) == Len(id) = 2

\* The encoding of an identifier: its bytes, where they are known.
Id_strict_encode(id) == IF IsRawId(id) THEN Bytes(id[2]) ELSE <<id>>

RECURSIVE Ids_strict_encode(_)
Ids_strict_encode(list) ==
    IF Len(list) = 0 THEN <<>>
    ELSE Id_strict_encode(Head(list)) \o Ids_strict_encode(Tail(list))

\* Vec<u8>::strict_encode: a two-byte count, then the items.
Vec_strict_encode(items) == Bytes(LeBytes(Len(items), 2)) \o items

\* Vec<ContainerId>::strict_encode: a two-byte count, then the ids.
IdVec_strict_encode(list) ==
    Bytes(LeBytes(Len(list), 2)) \o Ids_strict_encode(list)

\* derive(StrictEncode) for Topic: body, then container_ids.
Topic_strict_encode(t) ==
    Vec_strict_encode(Bytes(t.body)) \o IdVec_strict_encode(t.container_ids)

\* derive(StrictEncode) for Mesg: parent_id, body, then container_ids.
Mesg_strict_encode(m) ==
    Id_strict_encode(m.parent_id) \o Vec_strict_encode(Bytes(m.body))
        \o IdVec_strict_encode(m.container_ids)

\* Readers over an encoded record: the value read and the items left.
Got(v, rest) == [ok |-> TRUE, val |-> v, rest |-> rest]
Drop(s, n) == SubSeq(s, n + 1, Len(s))
AllBytes(s, n) == Len(s) >= n /\ \A i \in 1 .. n : IsByte(s[i])

\* u16::strict_decode
ReadU16(s) ==
    IF AllBytes(s, 2) THEN Got(s[1][1] + 256 * s[2][1], Drop(s, 2))
    ELSE Err("UnexpectedEof")

\* Vec<u8>::strict_decode
ReadVecU8(s) ==
    LET count == ReadU16(s)
    IN IF ~count.ok THEN count
       ELSE IF ~AllBytes(count.rest, count.val) THEN Err("UnexpectedEof")
       ELSE Got([i \in 1 .. count.val |-> count.rest[i][1]],
                Drop(count.rest, count.val))

\* MesgId::strict_decode, ContainerId::strict_decode
ReadId(s) ==
    IF Len(s) > 0 /\ ~IsByte(s[1]) THEN Got(s[1], Drop(s, 1))
    ELSE IF AllBytes(s, ID_LEN)
    THEN Got(RawId([i \in 1 .. ID_LEN |-> s[i][1]]), Drop(s, ID_LEN))
    ELSE Err("UnexpectedEof")

RECURSIVE ReadIds(_, _)
ReadIds(s, n) ==
    IF n = 0 THEN Got(<<>>, s)
    ELSE LET first == ReadId(s)
             others == ReadIds(first.rest, n - 1)
         IN IF ~first.ok THEN first
            ELSE IF ~others.ok THEN others
            ELSE Got(<<first.val>> \o others.val, others.rest)

\* Vec<ContainerId>::strict_decode
ReadIdVec(s) ==
    LET count == ReadU16(s)
    IN IF ~count.ok THEN count ELSE ReadIds(count.rest, count.val)

\* T::strict_deserialize: all of the input has to be read.
Entire(r) ==
    IF ~r.ok THEN r
    ELSE IF Len(r.rest) > 0 THEN Err("DataNotEntirelyConsumed")
    ELSE Ok(r.val)

\* derive(StrictDecode) for Topic
ReadTopic(s) ==
    LET body == ReadVecU8(s)
        container_ids == ReadIdVec(body.rest)
    IN IF ~body.ok THEN body
       ELSE IF ~container_ids.ok THEN container_ids
       ELSE Got(Topic(body.val, container_ids.val), container_ids.rest)

Topic_strict_decode(s) == Entire(ReadTopic(s))

\* derive(StrictDecode) for Mesg
ReadMesg(s) ==
    LET parent_id == ReadId(s)
        body == ReadVecU8(parent_id.rest)
        container_ids == ReadIdVec(body.rest)
    IN IF ~parent_id.ok THEN parent_id
       ELSE IF ~body.ok THEN body
       ELSE IF ~container_ids.ok THEN container_ids
       ELSE Got(Mesg(parent_id.val, body.val, container_ids.val),
                container_ids.rest)

Mesg_strict_decode(s) == Entire(ReadMesg(s))

\* Topic::mesg_id
Topic_mesg_id(t) == from_engine(MesgIdTag_engine, Topic_strict_encode(t))

\* Mesg::mesg_id
Mesg_mesg_id(m) == from_engine(MesgIdTag_engine, Mesg_strict_encode(m))

(***************************************************************************)
(* p2p.rs: the message set. A message is its variant (type) and the value  *)
(* the variant wraps (inner), a record of the wrapped struct's fields.     *)
(***************************************************************************)
TopicList(a, topics) == [app |-> a, topics |-> topics]
PostReq(a, message) == [app |-> a, message |-> message]
MesgReq(a, message_id) == [app |-> a, message_id |-> message_id]
ContainerPull(a, message_id, container_id) ==
    [app |-> a, message_id |-> message_id, container_id |-> container_id]
ContainerPush(a, container_id, container) ==
    [app |-> a, container_id |-> container_id, container |-> container]
ChunkPull(a, message_id, container_id, chunk_ids) ==
    [app |-> a, message_id |-> message_id, container_id |-> container_id,
     chunk_ids |-> chunk_ids]
ChunkPush(a, container_id, chunk_id, chunk) ==
    [app |-> a, container_id |-> container_id, chunk_id |-> chunk_id,
     chunk |-> chunk]

Message(type, inner) == [type |-> type, inner |-> inner]

ListApps == Message("ListApps", [unit |-> 0])
ActiveApps(apps) == Message("ActiveApps", [apps |-> apps])
ListTopics(a) == Message("ListTopics", [app |-> a])
AppTopics(a, topics) == Message("AppTopics", TopicList(a, topics))
ProposeTopic(topic) == Message("ProposeTopic", topic)
Post(a, message) == Message("Post", PostReq(a, message))
Read(a, message_id) == Message("Read", MesgReq(a, message_id))
\* Decline built under the type of Accept.
Decline_as_accept(a, message_id) == Message("Accept", MesgReq(a, message_id))
Decline(a, message_id) == Message("Decline", MesgReq(a, message_id))
Accept(a, message_id) == Message("Accept", MesgReq(a, message_id))
PullContainer(a, message_id, container_id) ==
    Message("PullContainer", ContainerPull(a, message_id, container_id))
PushContainer(a, container_id, container) ==
    Message("PushContainer", ContainerPush(a, container_id, container))
Reject(a, message_id, container_id) ==
    Message("Reject", ContainerPull(a, message_id, container_id))
PullChunk(a, message_id, container_id, chunk_ids) ==
    Message("PullChunk", ChunkPull(a, message_id, container_id, chunk_ids))
\* PushChunk that carries the id of the container in place of the chunk id.
PushChunk_wrong_id(a, container_id, chunk_id, chunk) ==
    Message("PushChunk", ChunkPush(a, container_id, container_id, chunk))
PushChunk(a, container_id, chunk_id, chunk) ==
    Message("PushChunk", ChunkPush(a, container_id, chunk_id, chunk))

MessageTypes ==
    {"ListApps", "ActiveApps", "ListTopics", "AppTopics", "ProposeTopic",
     "Post", "Read", "Decline", "Accept", "PullContainer", "PushContainer",
     "Reject", "PullChunk", "PushChunk"}

\* What storm_app() gives where the source gives it nothing to return.
NoStormApp == [variant |-> "none", n |-> 0]

\* msg.storm_app() for msg: &Topic. Topic has no app field, and the source
\* holds no impl of StormMesg for it: there is no app to return.
Topic_storm_app(topic) == NoStormApp

\* impl StormMesg for TopicList, PostReq, MesgReq, ContainerPull,
\* ContainerPush, ChunkPull, ChunkPush
Struct_storm_app(inner) == inner.app

\* impl StormMesg for Messages
storm_app(m) ==
    CASE m.type = "ListApps" -> System
      [] m.type = "ActiveApps" -> System
      [] m.type = "ListTopics" -> m.inner.app
      [] m.type = "AppTopics" -> Struct_storm_app(m.inner)
      [] m.type = "ProposeTopic" -> Topic_storm_app(m.inner)
      [] m.type = "Accept" -> Struct_storm_app(m.inner)
      [] m.type = "PullContainer" -> Struct_storm_app(m.inner)
      [] m.type = "PushContainer" -> Struct_storm_app(m.inner)
      [] m.type = "Post" -> Struct_storm_app(m.inner)
      [] m.type = "Read" -> Struct_storm_app(m.inner)
      [] m.type = "PushChunk" -> Struct_storm_app(m.inner)
      [] m.type = "PullChunk" -> Struct_storm_app(m.inner)
      [] m.type = "Decline" -> Struct_storm_app(m.inner)
      [] m.type = "Reject" -> Struct_storm_app(m.inner)

CkIdle ==
    /\ ck_op = "idle"
    /\ ck_in = <<>>
    /\ ck_out = <<>>

(***************************************************************************)
(* p2p.rs: the wire form of a message, #[api(encoding = "strict")]: the    *)
(* type id of the variant, then the strict encoding of each field of the   *)
(* value it wraps. The wire form is the tuple of the type id and the       *)
(* encoded fields.                                                         *)
(***************************************************************************)
\* #[api(type = ...)] with Accept given the type id of Decline.
TypeCode_shared(type) ==
    CASE type = "ListApps" -> 2
      [] type = "ActiveApps" -> 3
      [] type = "ListTopics" -> 4
      [] type = "AppTopics" -> 5
      [] type = "ProposeTopic" -> 6
      [] type = "Post" -> 8
      [] type = "Read" -> 10
      [] type = "Decline" -> 12
      [] type = "Accept" -> 12
      [] type = "PullContainer" -> 16
      [] type = "PushContainer" -> 17
      [] type = "Reject" -> 18
      [] type = "PullChunk" -> 20
      [] type = "PushChunk" -> 21

\* #[api(type = ...)]: 0x0002 .. 0x0015
TypeCode(type) ==
    CASE type = "ListApps" -> 2
      [] type = "ActiveApps" -> 3
      [] type = "ListTopics" -> 4
      [] type = "AppTopics" -> 5
      [] type = "ProposeTopic" -> 6
      [] type = "Post" -> 8
      [] type = "Read" -> 10
      [] type = "Decline" -> 12
      [] type = "Accept" -> 14
      [] type = "PullContainer" -> 16
      [] type = "PushContainer" -> 17
      [] type = "Reject" -> 18
      [] type = "PullChunk" -> 20
      [] type = "PushChunk" -> 21

\* The two bytes of a type id and the id they stand for.
TypeId_encode(c) == <<c \div 256, c % 256>>
TypeId_decode(bytes) == 256 * bytes[1] + bytes[2]

\* derive(Ord) for StormApp: by variant in the order declared, then by the
\* number held.
AppRank(a) ==
    CASE a.variant = "System" -> 0
      [] a.variant = "Chat" -> 1
      [] a.variant = "FileTransfer" -> 2
      [] a.variant = "Storage" -> 3
      [] a.variant = "Search" -> 4
      [] a.variant = "RgbContracts" -> 5
      [] a.variant = "RgbTransfers" -> 6
      [] a.variant = "Future" -> 7 + a.n
      [] a.variant = "Vendor" -> 7 + 65536 + a.n

\* BTreeSet<StormApp>::iter: the apps in ascending order.
RECURSIVE AppsInOrder(_)
AppsInOrder(apps) ==
    IF apps = {} THEN <<>>
    ELSE LET least == CHOOSE a \in apps :
                         \A b \in apps : AppRank(a) <= AppRank(b)
         IN <<least>> \o AppsInOrder(apps \ {least})

\* BTreeSet<StormApp>::strict_encode: refuses more than u16::MAX items; a
\* two-byte count, then the items in ascending order.
AppSet_strict_encode(apps) ==
    IF Cardinality(apps) > U16_MAX THEN Err("ExceedMaxItems")
    ELSE LET list == AppsInOrder(apps)
         IN Ok([count |-> LeBytes(Len(list), 2),
                items |-> [i \in 1 .. Len(list) |->
                              StormApp_strict_encode(list[i])]])

\* BTreeSet<StormApp>::strict_decode: reads the items one by one; an item
\* read before is an error.
AppSet_strict_decode(w) ==
    LET decoded == [i \in 1 .. Len(w.items) |-> StormApp_strict_decode(w.items[i])]
    IN IF Len(w.items) # LeValue(w.count) THEN Err("UnexpectedEof")
       ELSE IF \E i, j \in 1 .. Len(decoded) : i < j /\ decoded[i] = decoded[j]
       THEN Err("RepeatedValue")
       ELSE Ok({decoded[i] : i \in 1 .. Len(decoded)})

\* BTreeSet<MesgId>::strict_encode, BTreeSet<ChunkId>::strict_encode: the
\* ids in ascending order, which the set of them determines.
IdSet_strict_encode(set) ==
    IF Cardinality(set) > U16_MAX THEN Err("ExceedMaxItems")
    ELSE Ok([count |-> LeBytes(Cardinality(set), 2), items |-> set])

IdSet_strict_decode(w) ==
    IF Cardinality(w.items) # LeValue(w.count) THEN Err("UnexpectedEof")
    ELSE Ok(w.items)

\* MesgId, ContainerId, ChunkId ::strict_deserialize
Id_strict_decode(s) == Entire(ReadId(s))

\* Chunk::strict_encode (NetworkEncode): a three-byte length and the bytes.
Chunk_strict_encode(chunk) == Prepend(LeBytes(VecLen(chunk), 3), chunk)

\* Chunk::strict_decode (NetworkDecode)
Chunk_strict_decode(w) ==
    IF Len(w.head) < 3 THEN Err("UnexpectedEof")
    ELSE LET count == LeValue(SubSeq(w.head, 1, 3))
             bytes == [w EXCEPT !.head = Drop(@, 3)]
         IN IF VecLen(bytes) < count THEN Err("UnexpectedEof")
            ELSE IF VecLen(bytes) > count THEN Err("DataNotEntirelyConsumed")
            ELSE Ok(bytes)

\* The first failure among results, or the values of all of them.
AllOk(results) ==
    IF \E i \in 1 .. Len(results) : ~results[i].ok
    THEN results[CHOOSE i \in 1 .. Len(results) :
                    /\ ~results[i].ok
                    /\ \A j \in 1 .. i - 1 : results[j].ok]
    ELSE Ok([i \in 1 .. Len(results) |-> results[i].val])

\* Messages::strict_encode / serialize: the type id, then the fields of the
\* wrapped value in the order declared.
Messages_encode(m) ==
    LET i == m.inner
        fields ==
            CASE m.type = "ListApps" -> <<>>
              [] m.type = "ActiveApps" -> <<AppSet_strict_encode(i.apps)>>
              [] m.type = "ListTopics" -> <<Ok(StormApp_strict_encode(i.app))>>
              [] m.type = "AppTopics" ->
                    <<Ok(StormApp_strict_encode(i.app)),
                      IdSet_strict_encode(i.topics)>>
              [] m.type = "ProposeTopic" -> <<Ok(Topic_strict_encode(i))>>
              [] m.type = "Post" ->
                    <<Ok(StormApp_strict_encode(i.app)),
                      Ok(Mesg_strict_encode(i.message))>>
              [] m.type \in {"Read", "Decline", "Accept"} ->
                    <<Ok(StormApp_strict_encode(i.app)),
                      Ok(Id_strict_encode(i.message_id))>>
              [] m.type \in {"PullContainer", "Reject"} ->
                    <<Ok(StormApp_strict_encode(i.app)),
                      Ok(Id_strict_encode(i.message_id)),
                      Ok(Id_strict_encode(i.container_id))>>
              [] m.type = "PushContainer" ->
                    <<Ok(StormApp_strict_encode(i.app)),
                      Ok(Id_strict_encode(i.container_id)),
                      Ok(Container_strict_encode(i.container))>>
              [] m.type = "PullChunk" ->
                    <<Ok(StormApp_strict_encode(i.app)),
                      Ok(Id_strict_encode(i.message_id)),
                      Ok(Id_strict_encode(i.container_id)),
                      IdSet_strict_encode(i.chunk_ids)>>
              [] m.type = "PushChunk" ->
                    <<Ok(StormApp_strict_encode(i.app)),
                      Ok(Id_strict_encode(i.container_id)),
                      Ok(Id_strict_encode(i.chunk_id)),
                      Ok(Chunk_strict_encode(i.chunk))>>
        encoded == AllOk(fields)
    IN IF encoded.ok
       THEN Ok(<<TypeId_encode(TypeCode(m.type))>> \o encoded.val)
       ELSE encoded

\* The unmarshaller: the variant is looked up by the type id, then the
\* fields are decoded in the order declared.
Messages_decode(w) ==
    LET c == TypeId_decode(w[1])
        known == {t \in MessageTypes : TypeCode(t) = c}
        type == CHOOSE t \in known : TRUE
        from_app == StormApp_strict_decode(w[2])
        fields ==
            CASE type = "ListApps" -> <<>>
              [] type = "ActiveApps" -> <<AppSet_strict_decode(w[2])>>
              [] type = "ListTopics" -> <<Ok(from_app)>>
              [] type = "AppTopics" -> <<Ok(from_app), IdSet_strict_decode(w[3])>>
              [] type = "ProposeTopic" -> <<Topic_strict_decode(w[2])>>
              [] type = "Post" -> <<Ok(from_app), Mesg_strict_decode(w[3])>>
              [] type \in {"Read", "Decline", "Accept"} ->
                    <<Ok(from_app), Id_strict_decode(w[3])>>
              [] type \in {"PullContainer", "Reject"} ->
                    <<Ok(from_app), Id_strict_decode(w[3]), Id_strict_decode(w[4])>>
              [] type = "PushContainer" ->
                    <<Ok(from_app), Id_strict_decode(w[3]),
                      Container_strict_decode(w[4])>>
              [] type = "PullChunk" ->
                    <<Ok(from_app), Id_strict_decode(w[3]), Id_strict_decode(w[4]),
                      IdSet_strict_decode(w[5])>>
              [] type = "PushChunk" ->
                    <<Ok(from_app), Id_strict_decode(w[3]), Id_strict_decode(w[4]),
                      Chunk_strict_decode(w[5])>>
        decoded == AllOk(fields)
        f == decoded.val
    IN IF known = {} THEN Err("UnknownType")
       ELSE IF ~decoded.ok THEN decoded
       ELSE Ok(CASE type = "ListApps" -> ListApps
                 [] type = "ActiveApps" -> ActiveApps(f[1])
                 [] type = "ListTopics" -> ListTopics(f[1])
                 [] type = "AppTopics" -> AppTopics(f[1], f[2])
                 [] type = "ProposeTopic" -> ProposeTopic(f[1])
                 [] type = "Post" -> Post(f[1], f[2])
                 [] type = "Read" -> Read(f[1], f[2])
                 [] type = "Decline" -> Decline(f[1], f[2])
                 [] type = "Accept" -> Accept(f[1], f[2])
                 [] type = "PullContainer" -> PullContainer(f[1], f[2], f[3])
                 [] type = "PushContainer" -> PushContainer(f[1], f[2], f[3])
                 [] type = "Reject" -> Reject(f[1], f[2], f[3])
                 [] type = "PullChunk" -> PullChunk(f[1], f[2], f[3], f[4])
                 [] type = "PushChunk" -> PushChunk(f[1], f[2], f[3], f[4]))

WireIdle ==
    /\ w_pc = "idle"
    /\ w_msg = ListApps
    /\ w_wire = <<>>
    /\ w_out = <<>>

MutIdle ==
    /\ mc_op = "idle"
    /\ mc_built = Plain(<<>>)
    /\ mc_id = <<>>
    /\ mc_chunk = Plain(<<>>)

TmIdle ==
    /\ tm_topic = Topic(<<>>, <<>>)
    /\ tm_mesg = Mesg(RawId(<<>>), <<>>, <<>>)
    /\ tm_ids = <<>>

\* Every state machine but the first three at rest.
OthersIdle == WireIdle /\ MutIdle /\ TmIdle

P2PIdle ==
    /\ b_payload = <<>>
    /\ b_chunk_size = 1
    /\ a_out = {}
    /\ net_req = {}
    /\ net_resp = {}
    /\ a_container = <<>>
    /\ a_chunks = {}
    /\ a_result = <<>>
    /\ xlog = <<>>
    /\ clashed = FALSE

----------------------------------------------------------------------------
\* A run starts from a StormApp value built directly from the enum's
\* constructors, or from a raw u16 code.
AppStartFromApp(a) == [kind |-> "app", app |-> a, code |-> 0]
AppStartFromCode(c) == [kind |-> "code", app |-> System, code |-> c]

InitApp ==
    /\ \/ \E a \in NamedApps : app_start = AppStartFromApp(a)
       \/ \E n \in U16 : app_start = AppStartFromApp(Future(n))
       \/ \E n \in U16 : app_start = AppStartFromApp(Vendor(n))
       \/ \E c \in U16 : app_start = AppStartFromCode(c)
    /\ app_pc = app_start.kind
    /\ app = app_start.app
    /\ code = app_start.code
    /\ wire = <<>>
    /\ IdIdle
    /\ CkIdle
    /\ P2PIdle
    /\ OthersIdle

\* let code = app.app_code()
AppCode ==
    /\ app_pc \in {"app", "from"}
    /\ code' = app_code(app)
    /\ app_pc' = "app_code"
    /\ UNCHANGED <<app_start, app, wire>>
    /\ UNCHANGED appRest

\* let app = StormApp::from(code)
FromCode ==
    /\ app_pc \in {"code", "app_code"}
    /\ app' = StormApp_from(code)
    /\ app_pc' = "from"
    /\ UNCHANGED <<app_start, code, wire>>
    /\ UNCHANGED appRest

\* code.strict_encode(&mut wire)
EncodeCode ==
    /\ app_pc = "code"
    /\ wire' = u16_strict_encode(code)
    /\ app_pc' = "wire"
    /\ UNCHANGED <<app_start, app, code>>
    /\ UNCHANGED appRest

\* app.strict_encode(&mut wire)
EncodeApp ==
    /\ app_pc = "decode"
    /\ wire' = StormApp_strict_encode(app)
    /\ app_pc' = "encode"
    /\ UNCHANGED <<app_start, app, code>>
    /\ UNCHANGED appRest

\* let app = StormApp::strict_decode(wire)
DecodeApp ==
    /\ app_pc \in {"wire", "encode"}
    /\ app' = StormApp_strict_decode(wire)
    /\ app_pc' = "decode"
    /\ UNCHANGED <<app_start, code, wire>>
    /\ UNCHANGED appRest

NextApp ==
    \/ AppCode
    \/ FromCode
    \/ EncodeCode
    \/ EncodeApp
    \/ DecodeApp

SpecApp == InitApp /\ [][NextApp]_vars

----------------------------------------------------------------------------
\* The codes registered as LNPBP standards (app.rs:15-21), written out.
RegisteredCodes == {0, 1, 2, 3, 4, 16, 17}

\* The value each range of codes stands for, stated from the documented
\* ranges and not through StormApp_from.
Canonical(a) ==
    \/ a \in NamedApps
    \/ a.variant = "Future" /\ a.n < 32768 /\ a.n \notin RegisteredCodes
    \/ a.variant = "Vendor" /\ a.n >= 32768

\* C2 as stated: for EVERY StormApp value app, Future(n) and Vendor(n) with
\* any 16-bit n included, StormApp::from(app.app_code()) = app.
C2_RoundTripEveryApp ==
    (app_start.kind = "app" /\ app_pc = "from") => app = app_start.app

\* C2 amended: for every StormApp value that StormApp::from can produce (the
\* seven named variants, Future(n) for an unregistered n below 0x8000,
\* Vendor(n) for n with bit 0x8000 set), StormApp::from(app.app_code()) = app,
\* the boundary values Future(0x7FFF) and Vendor(0x8000) included.
C2_RoundTripCanonicalApp ==
    (app_start.kind = "app" /\ app_pc = "from" /\ Canonical(app_start.app))
        => app = app_start.app

\* C2 witness: a boundary value has gone through app_code and back.
C2_Witness ==
    /\ app_start.kind = "app"
    /\ app_pc = "from"
    /\ app_start.app \in {Future(32767), Vendor(32768)}
    /\ app = app_start.app

\* C3: for every 16-bit code c, StormApp::from(c) is a StormApp value (no
\* code is rejected) and StormApp::from(c).app_code() = c; strict-decoding
\* the two-byte encoding of c and encoding the result again gives the
\* encoding of c.
C3_CodeRoundTrip ==
    app_start.kind = "code" =>
        /\ app_pc \in {"from", "decode"} => IsStormApp(app)
        /\ app_pc = "app_code" => code = app_start.code
        /\ app_pc = "encode" =>
               /\ wire = <<app_start.code % 256, app_start.code \div 256>>
               /\ wire[1] + 256 * wire[2] = app_start.code

\* C3 witness: the code 0x7FFF came back from the wire form as itself.
C3_Witness ==
    /\ app_start.kind = "code"
    /\ app_start.code = 32767
    /\ app_pc = "encode"
    /\ wire = <<255, 127>>

\* The app a code is classified as, by the documented ranges.
Classified(c, a) ==
    /\ c = 0 => a = System
    /\ c = 1 => a = Chat
    /\ c = 2 => a = FileTransfer
    /\ c = 3 => a = Storage
    /\ c = 4 => a = Search
    /\ c = 16 => a = RgbContracts
    /\ c = 17 => a = RgbTransfers
    /\ c >= 32768 => a = Vendor(c)
    /\ (c < 32768 /\ c \notin RegisteredCodes) => a = Future(c)
    /\ a.variant = "Vendor" <=> c >= 32768

\* C4: StormApp::from(c) maps the seven registered codes to their named
\* apps, every code with bit 0x8000 set to Vendor(c) and every other code to
\* Future(c); a code with the bit set is never named or Future, a code
\* below 0x8000 never Vendor.
C4_Classification ==
    (app_start.kind = "code" /\ app_pc = "from")
        => Classified(app_start.code, app)

\* C4 witness: the first vendor code has been classified.
C4_Witness ==
    /\ app_start.kind = "code"
    /\ app_pc = "from"
    /\ app_start.code = 32768
    /\ app = Vendor(32768)

(***************************************************************************)
(* SpecCommit: the same bytes committed to under the three kinds           *)
(***************************************************************************)
AppIdle ==
    /\ app_pc = "idle"
    /\ app_start = AppStartFromCode(0)
    /\ app = System
    /\ code = 0
    /\ wire = <<>>

InitCommit ==
    /\ id_payload \in BytesUpTo(MaxPayloadLen)
    /\ ids = NoIds
    /\ AppIdle
    /\ CkIdle
    /\ P2PIdle
    /\ OthersIdle

\* let id = ChunkId::hash(payload)
CommitAsChunk ==
    /\ ids.chunk = <<>>
    /\ ids' = [ids EXCEPT !.chunk = ChunkId_hash(id_payload)]
    /\ UNCHANGED id_payload
    /\ UNCHANGED idRest

\* let id = ContainerId::commit(payload)
CommitAsContainer ==
    /\ ids.container = <<>>
    /\ ids' = [ids EXCEPT !.container = ContainerId_commit(id_payload)]
    /\ UNCHANGED id_payload
    /\ UNCHANGED idRest

\* let id = MesgId::commit(payload)
CommitAsMesg ==
    /\ ids.mesg = <<>>
    /\ ids' = [ids EXCEPT !.mesg = MesgId_commit(id_payload)]
    /\ UNCHANGED id_payload
    /\ UNCHANGED idRest

NextCommit ==
    \/ CommitAsChunk
    \/ CommitAsContainer
    \/ CommitAsMesg

SpecCommit == InitCommit /\ [][NextCommit]_vars

----------------------------------------------------------------------------
\* C1: the three identifier kinds are computed under pairwise distinct
\* domain tags: the initial hash state of ContainerId differs from that of
\* MesgId and both differ from the untagged state of ChunkId, so the
\* container, message and chunk commitments of the same bytes are pairwise
\* different.
C1_DistinctDomains ==
    /\ (ids.chunk # <<>> /\ ids.container # <<>>) => ids.chunk # ids.container
    /\ (ids.chunk # <<>> /\ ids.mesg # <<>>) => ids.chunk # ids.mesg
    /\ (ids.container # <<>> /\ ids.mesg # <<>>) => ids.container # ids.mesg

(***************************************************************************)
(* SpecChunk: chunks and containers built from vectors of every size class *)
(***************************************************************************)
\* Lengths tried: the short ones, and those within Margin of the ceilings
\* of a Vec (u16::MAX) and of a MediumVec (u24::MAX).
MaxSmallLen == 2
Margin == 4

LenSamples ==
    (0 .. MaxSmallLen)
        \cup ((U16_MAX - 1) .. (U16_MAX + 1))
        \cup ((U24_MAX - Margin) .. (U24_MAX + Margin))

InputVecs == {Run(b, n) : b \in SampleBytes, n \in LenSamples}

\* Values handed to try_to_chunk: a Vec<u8> of any length, a MediumVec<u8>
\* of a length a MediumVec can have.
InputValues ==
    {[type |-> "Vec<u8>", bytes |-> v] : v \in InputVecs}
        \cup {[type |-> "MediumVec<u8>", bytes |-> v] :
                 v \in {x \in InputVecs : VecLen(x) <= U24_MAX}}

\* The chunk ids manifests are built from, and the manifest lengths tried:
\* short ones, around the documented ceiling of 2^19, around u24::MAX.
SampleChunkIds == {Chunk_chunk_id(Plain(<<b>>)) : b \in {0, 1}}

CountSamples ==
    (0 .. MaxSmallLen)
        \cup ((2^19 - 1) .. (2^19 + 1))
        \cup ((U24_MAX - 1) .. (U24_MAX + 1))

InputManifests == {Run(k, n) : k \in SampleChunkIds, n \in CountSamples}

InitChunk ==
    /\ CkIdle
    /\ AppIdle
    /\ IdIdle
    /\ P2PIdle
    /\ OthersIdle

\* Chunk::try_from(slice)
ChunkTryFromSlice ==
    \E b \in InputVecs :
        /\ ck_op' = "Chunk::try_from(&[u8])"
        /\ ck_in' = b
        /\ ck_out' = Chunk_try_from_slice(b)
        /\ UNCHANGED ckRest

\* Chunk::try_from(&vec)
ChunkTryFromVecRef ==
    \E b \in InputVecs :
        /\ ck_op' = "Chunk::try_from(&Vec<u8>)"
        /\ ck_in' = b
        /\ ck_out' = Chunk_try_from_vec_ref(b)
        /\ UNCHANGED ckRest

\* Chunk::try_from(vec)
ChunkTryFromVec ==
    \E b \in InputVecs :
        /\ ck_op' = "Chunk::try_from(Vec<u8>)"
        /\ ck_in' = b
        /\ ck_out' = Chunk_try_from_vec(b)
        /\ UNCHANGED ckRest

\* value.try_to_chunk()
TryToChunk ==
    \E v \in InputValues :
        /\ ck_op' = "try_to_chunk"
        /\ ck_in' = v
        /\ ck_out' = try_to_chunk(v)
        /\ UNCHANGED ckRest

\* Container { version: 0, mime, info, size, chunks: MediumVec::try_from(ids)? }
ContainerNew ==
    \E m \in InputManifests, size \in {0, 1} :
        /\ ck_op' = "Container::new"
        /\ ck_in' = m
        /\ ck_out' = Container_new(0, "text/plain", "", size, m)
        /\ UNCHANGED ckRest

\* Container::strict_decode of the encoding of a container, whole or with
\* its last chunk id cut off.
ContainerDecode ==
    \E m \in {x \in InputManifests : VecLen(x) <= U24_MAX}, cut \in {0, 1} :
        LET w == Container_strict_encode(Container_new(0, "text/plain", "", 0, m).val)
        IN /\ cut <= m.n
           /\ ck_op' = "Container::strict_decode"
           /\ ck_in' = [w EXCEPT !.ids = Run(m.fill, m.n - cut)]
           /\ ck_out' = Container_strict_decode(ck_in')
           /\ UNCHANGED ckRest

\* Fragments given to the two-fragment ChunkId constructors: byte vectors,
\* short ones and ones just within and just beyond what a Vec encodes.
FragmentValues ==
    {[type |-> "Vec<u8>", bytes |-> Run(0, n)] :
        n \in {0, 1, U16_MAX, U16_MAX + 1}}

\* ChunkId::try_from(data)
ChunkIdTryFrom ==
    \E v \in InputValues :
        /\ ck_op' = "ChunkId::try_from"
        /\ ck_in' = v
        /\ ck_out' = ChunkId_try_from(v)
        /\ UNCHANGED ckRest

\* ChunkId::with_fragments(a, b)
ChunkIdWithFragments ==
    \E a \in FragmentValues, b \in FragmentValues :
        /\ ck_op' = "ChunkId::with_fragments"
        /\ ck_in' = <<a, b>>
        /\ ck_out' = ChunkId_with_fragments(a, b)
        /\ UNCHANGED ckRest

\* ChunkId::with_fixed_fragments(a, b)
ChunkIdWithFixedFragments ==
    \E a \in FragmentValues, b \in FragmentValues :
        /\ ck_op' = "ChunkId::with_fixed_fragments"
        /\ ck_in' = <<a, b>>
        /\ ck_out' = ChunkId_with_fixed_fragments(a, b)
        /\ UNCHANGED ckRest

\* Vec::<u8>::try_from_chunk(chunk), for a chunk made by try_to_chunk or
\* built from bytes.
TryFromChunk ==
    \E chunk \in {try_to_chunk(v).val : v \in {x \in InputValues : try_to_chunk(x).ok}}
                  \cup {b \in InputVecs : VecLen(b) <= U24_MAX} :
        /\ ck_op' = "try_from_chunk"
        /\ ck_in' = chunk
        /\ ck_out' = try_from_chunk(chunk)
        /\ UNCHANGED ckRest

\* ContainerId::strict_deserialize / MesgId::strict_deserialize of one byte
\* fewer than, exactly, and one byte more than an identifier.
IdentifierDecode ==
    \E n \in {ID_LEN - 1, ID_LEN, ID_LEN + 1} :
        /\ ck_op' = "Id::strict_decode"
        /\ ck_in' = Bytes([i \in 1 .. n |-> 0])
        /\ ck_out' = Id_strict_decode(ck_in')
        /\ UNCHANGED ckRest

NextChunk ==
    \/ ChunkTryFromSlice
    \/ ChunkTryFromVecRef
    \/ ChunkTryFromVec
    \/ TryToChunk
    \/ ContainerNew
    \/ ContainerDecode
    \/ ChunkIdTryFrom
    \/ ChunkIdWithFragments
    \/ ChunkIdWithFixedFragments
    \/ TryFromChunk
    \/ IdentifierDecode

SpecChunk == InitChunk /\ [][NextChunk]_vars

----------------------------------------------------------------------------
ChunkTryFromOps ==
    {"Chunk::try_from(&[u8])", "Chunk::try_from(&Vec<u8>)", "Chunk::try_from(Vec<u8>)"}

\* What C5 says of building a chunk from the bytes b with result r.
ChunkBuiltFrom(b, r) ==
    /\ r.ok <=> VecLen(b) <= 2^24 - 1
    /\ r.ok => r.val = b
    /\ VecLen(b) >= 2^24 => ~r.ok

\* C5: building a Chunk from a byte sequence b (Chunk::try_from on a slice
\* or a Vec, try_to_chunk on the serialized form b of a value) succeeds
\* exactly when len(b) <= 2^24 - 1, and the chunk then holds exactly the
\* bytes of b; for len(b) >= 2^24 it is an error, never a truncated chunk.
C5_ChunkConstruction ==
    /\ ck_op \in ChunkTryFromOps => ChunkBuiltFrom(ck_in, ck_out)
    /\ ck_op = "try_to_chunk" =>
           LET b == strict_serialize(ck_in)
           IN b.ok => ChunkBuiltFrom(b.val, ck_out)

\* C5 witness: a slice of exactly 2^24 - 1 bytes has become a chunk.
C5_Witness ==
    /\ ck_op = "Chunk::try_from(&[u8])"
    /\ VecLen(ck_in) = 2^24 - 1
    /\ ck_out.ok
    /\ ck_out.val = ck_in

\* C6: every Container that can be constructed or decoded has at most 2^19
\* chunk references in its manifest.
C6_ManifestBound ==
    (ck_op \in {"Container::new", "Container::strict_decode"} /\ ck_out.ok)
        => VecLen(ck_out.val.chunks) <= 2^19


----------------------------------------------------------------------------
(***************************************************************************)
(* Spec: peer A sends requests, peer B answers them, A attributes each     *)
(* answer to a request it has outstanding.  The message values and         *)
(* storm_app are those of p2p.rs; the handlers, the correlation of answers *)
(* with requests, the splitting of a payload and its reassembly are not in *)
(* the repository and follow the protocol description.                     *)
(***************************************************************************)
MaxExchanges == 3     \* requests A sends in one run
MaxOutstanding == 2   \* requests A keeps outstanding at once
MaxChunkSize == 2     \* chunk sizes B splits with, 1 .. MaxChunkSize

P2PApps == {Chat, Storage}
P2PPayloads ==
    {s \in BytesUpTo(MaxPayloadLen) : \A i \in 1 .. Len(s) : s[i] \in {0, 1}}

\* Splitting: consecutive pieces of chunk_size bytes, the last one shorter.
Split(payload, chunk_size) ==
    LET count == (Len(payload) + chunk_size - 1) \div chunk_size
        piece(i) ==
            SubSeq(payload, (i - 1) * chunk_size + 1,
                   IF i * chunk_size < Len(payload) THEN i * chunk_size
                   ELSE Len(payload))
    IN [i \in 1 .. count |-> Chunk_try_from_vec(Plain(piece(i))).val]

\* What B holds: the chunks of its payload, the container listing them, a
\* topic and a message announcing the container.
BChunks == Split(b_payload, b_chunk_size)
BManifest == [i \in 1 .. Len(BChunks) |-> Chunk_chunk_id(BChunks[i])]
BContainer ==
    Container_new(0, "text/plain", "", Len(b_payload), Plain(BManifest)).val
BContainerId == Container_container_id(BContainer)
BChunkIds == {BManifest[i] : i \in 1 .. Len(BManifest)}
BChunk(k) == BChunks[CHOOSE i \in 1 .. Len(BManifest) : BManifest[i] = k]
BTopic == Topic(<<0>>, <<BContainerId>>)
BMesg == Mesg(Topic_mesg_id(BTopic), <<1>>, <<BContainerId>>)
BApps == P2PApps
BTopics(a) == IF a = Chat THEN {Topic_mesg_id(BTopic)} ELSE {}

\* What A sends about: a topic and a message of its own, and ids B does not
\* hold.
ATopic == Topic(<<2>>, <<>>)
AMesg == Mesg(Topic_mesg_id(BTopic), <<3>>, <<>>)
UnknownMesgId == Mesg_mesg_id(Mesg(Topic_mesg_id(BTopic), <<4>>, <<>>))
UnknownContainerId ==
    Container_container_id(Container_new(1, "text/plain", "", 0, Plain(<<>>)).val)
StrayChunkId == Chunk_chunk_id(Plain(<<255>>))

\* The ids a response carries, as a key.
ResponseKey(r) ==
    CASE r.type = "ActiveApps" -> <<"ActiveApps">>
      [] r.type = "AppTopics" -> <<"AppTopics", r.inner.app>>
      [] r.type = "Accept" -> <<"Accept", r.inner.app, r.inner.message_id>>
      [] r.type = "Decline" -> <<"Decline", r.inner.app, r.inner.message_id>>
      [] r.type = "Post" ->
            <<"Post", r.inner.app, Mesg_mesg_id(r.inner.message)>>
      [] r.type = "PushContainer" ->
            <<"PushContainer", r.inner.app, r.inner.container_id>>
      [] r.type = "Reject" ->
            <<"Reject", r.inner.app, r.inner.message_id, r.inner.container_id>>
      [] r.type = "PushChunk" ->
            <<"PushChunk", r.inner.app, r.inner.container_id, r.inner.chunk_id>>
      [] OTHER -> <<"none">>

\* The keys under which an answer to request q can come back; for a
\* PullChunk, chunk_ids are the chunks still awaited.
CorrelationKeys(q, chunk_ids) ==
    CASE q.type = "ListApps" -> {<<"ActiveApps">>}
      [] q.type = "ListTopics" -> {<<"AppTopics", storm_app(q)>>}
      [] q.type = "ProposeTopic" ->
            {<<"Decline", storm_app(q), Topic_mesg_id(q.inner)>>}
      [] q.type = "Post" ->
            {<<"Accept", storm_app(q), Mesg_mesg_id(q.inner.message)>>,
             <<"Decline", storm_app(q), Mesg_mesg_id(q.inner.message)>>}
      [] q.type = "Read" ->
            {<<"Post", storm_app(q), q.inner.message_id>>,
             <<"Decline", storm_app(q), q.inner.message_id>>}
      [] q.type = "PullContainer" ->
            {<<"PushContainer", storm_app(q), q.inner.container_id>>,
             <<"Reject", storm_app(q), q.inner.message_id, q.inner.container_id>>}
      [] q.type = "PullChunk" ->
            {<<"PushChunk", storm_app(q), q.inner.container_id, k>> :
                k \in chunk_ids}
              \cup {<<"Reject", storm_app(q), q.inner.message_id,
                      q.inner.container_id>>}
      [] OTHER -> {}

Awaited(q) == IF q.type = "PullChunk" THEN q.inner.chunk_ids ELSE {}
ExchangeKeys(x) == CorrelationKeys(x.req, x.pending)
Correlates(r, x) == ResponseKey(r) \in ExchangeKeys(x)
KeyClash(q, x) == CorrelationKeys(q, Awaited(q)) \cap ExchangeKeys(x) # {}

Refusals == {"Decline", "Reject"}

\* Reassembly: the chunks named by the manifest, in its order; a chunk not
\* at hand is an error.
RECURSIVE Concat(_, _)
Concat(listed, chunks) ==
    IF listed = <<>> THEN <<>>
    ELSE (CHOOSE c \in chunks : c.chunk_id = Head(listed)).chunk.head
            \o Concat(Tail(listed), chunks)

Reassemble(container, chunks) ==
    LET listed == container.chunks.head
    IN IF \E i \in 1 .. Len(listed) : \A c \in chunks : c.chunk_id # listed[i]
       THEN Err("MissingChunk")
       ELSE Ok(Concat(listed, chunks))

InitP2P(payloads, sizes) ==
    /\ b_payload \in payloads
    /\ b_chunk_size \in sizes
    /\ a_out = {}
    /\ net_req = {}
    /\ net_resp = {}
    /\ a_container = <<>>
    /\ a_chunks = {}
    /\ a_result = <<>>
    /\ xlog = <<>>
    /\ clashed = FALSE
    /\ AppIdle
    /\ IdIdle
    /\ CkIdle
    /\ OthersIdle

Init == InitP2P({<<0, 1>>}, {1})

\* ---- peer A: requests ----
Send(req, origin) ==
    /\ Len(xlog) < MaxExchanges
    /\ Cardinality(a_out) < MaxOutstanding
    /\ a_out' = a_out \cup
           {[xid |-> Len(xlog) + 1, req |-> req, pending |-> Awaited(req)]}
    /\ net_req' = net_req \cup
           {[xid |-> Len(xlog) + 1, origin |-> origin, msg |-> req]}
    /\ xlog' = Append(xlog, [req |-> req, origin |-> origin, sent |-> {},
                             resps |-> <<>>, state |-> "open"])
    /\ clashed' =
           \/ clashed
           \/ \E x \in a_out : KeyClash(req, x)
           \/ \E r \in net_resp :
                 /\ r.xid = 0
                 /\ ResponseKey(r.msg) \in CorrelationKeys(req, Awaited(req))
    /\ UNCHANGED <<b_payload, b_chunk_size, net_resp, a_container, a_chunks,
                   a_result>>
    /\ UNCHANGED p2pRest

SendListApps == Send(ListApps, System)

SendListTopics == \E a \in P2PApps : Send(ListTopics(a), a)

\* The topic is proposed for Chat; the message holds no app.
SendProposeTopic == Send(ProposeTopic(ATopic), Chat)

SendPost == Send(Post(Chat, AMesg), Chat)

SendRead ==
    \E id \in {Mesg_mesg_id(BMesg), UnknownMesgId} :
        Send(Read(Chat, id), Chat)

SendPullContainer ==
    \E cid \in {BContainerId, UnknownContainerId} :
        Send(PullContainer(Storage, Mesg_mesg_id(BMesg), cid), Storage)

\* A pulls the chunks of the manifest it holds, all at once or one by one,
\* or a chunk it has heard of elsewhere.
SendPullChunk ==
    \E a \in P2PApps, cid \in {BContainerId} :
        LET listed == IF a_container = <<>> THEN {}
                      ELSE {a_container[1].chunks.head[i] :
                               i \in 1 .. Len(a_container[1].chunks.head)}
        IN \E ks \in ({listed} \ {{}})
                       \cup {{k} : k \in listed \cup {StrayChunkId}} :
               Send(PullChunk(a, Mesg_mesg_id(BMesg), cid, ks), a)

\* ---- peer B: one handler per request ----
Reply(q, msgs) ==
    /\ net_req' = net_req \ {q}
    /\ net_resp' = net_resp \cup
           {[xid |-> q.xid, origin |-> q.origin, msg |-> m] : m \in msgs}
    /\ xlog' = [xlog EXCEPT ![q.xid].sent = msgs]
    /\ UNCHANGED <<b_payload, b_chunk_size, a_out, a_container, a_chunks,
                   a_result, clashed>>
    /\ UNCHANGED p2pRest

HandleListApps ==
    \E q \in net_req :
        /\ q.msg.type = "ListApps"
        /\ Reply(q, {ActiveApps(BApps)})

HandleListTopics ==
    \E q \in net_req :
        /\ q.msg.type = "ListTopics"
        /\ Reply(q, {AppTopics(storm_app(q.msg), BTopics(storm_app(q.msg)))})

\* A proposal is declined, or taken without a reply; with no reply the
\* proposer's exchange is over as soon as B has the proposal.
HandleProposeTopic ==
    \E q \in net_req :
        /\ q.msg.type = "ProposeTopic"
        /\ \/ Reply(q, {Decline(storm_app(q.msg), Topic_mesg_id(q.msg.inner))})
           \/ /\ net_req' = net_req \ {q}
              /\ a_out' = {x \in a_out : x.xid # q.xid}
              /\ xlog' = [xlog EXCEPT ![q.xid].state = "done"]
              /\ UNCHANGED <<b_payload, b_chunk_size, net_resp, a_container,
                             a_chunks, a_result, clashed>>
              /\ UNCHANGED p2pRest

HandlePost ==
    \E q \in net_req :
        /\ q.msg.type = "Post"
        /\ \/ Reply(q, {Accept(storm_app(q.msg), Mesg_mesg_id(q.msg.inner.message))})
           \/ Reply(q, {Decline(storm_app(q.msg), Mesg_mesg_id(q.msg.inner.message))})

HandleRead ==
    \E q \in net_req :
        /\ q.msg.type = "Read"
        /\ IF q.msg.inner.message_id = Mesg_mesg_id(BMesg)
           THEN Reply(q, {Post(storm_app(q.msg), BMesg)})
           ELSE Reply(q, {Decline(storm_app(q.msg), q.msg.inner.message_id)})

HandlePullContainer ==
    \E q \in net_req :
        /\ q.msg.type = "PullContainer"
        /\ IF q.msg.inner.container_id = BContainerId
           THEN Reply(q, {PushContainer(storm_app(q.msg), BContainerId, BContainer)})
           ELSE Reply(q, {Reject(storm_app(q.msg), q.msg.inner.message_id,
                                 q.msg.inner.container_id)})

HandlePullChunk ==
    \E q \in net_req :
        /\ q.msg.type = "PullChunk"
        /\ IF /\ q.msg.inner.container_id = BContainerId
              /\ q.msg.inner.chunk_ids \subseteq BChunkIds
           THEN Reply(q, {PushChunk(storm_app(q.msg), BContainerId, k, BChunk(k)) :
                             k \in q.msg.inner.chunk_ids})
           ELSE Reply(q, {Reject(storm_app(q.msg), q.msg.inner.message_id,
                                 q.msg.inner.container_id)})

\* B posts its message to A unasked (a Post is "a reply to Read or a
\* spontaneous message").
SpontaneousPost ==
    LET post == [xid |-> 0, origin |-> Chat, msg |-> Post(Chat, BMesg)]
    IN /\ post \notin net_resp
       /\ net_resp' = net_resp \cup {post}
       /\ clashed' = (clashed \/ \E x \in a_out : Correlates(post.msg, x))
       /\ UNCHANGED <<b_payload, b_chunk_size, a_out, net_req, a_container,
                      a_chunks, a_result, xlog>>
       /\ UNCHANGED p2pRest

\* ---- peer A: one handler per message from B ----
\* The response goes to one of the outstanding requests it correlates with;
\* with none it is dropped.  A refusal or a single answer ends the exchange;
\* a PushChunk ends it when it was the last chunk awaited.
Settle(x, r) ==
    IF r.type = "PushChunk" /\ x.pending \ {r.inner.chunk_id} # {}
    THEN (a_out \ {x}) \cup {[x EXCEPT !.pending = @ \ {r.inner.chunk_id}]}
    ELSE a_out \ {x}

Outcome(x, r) ==
    IF r.type \in Refusals THEN "refused"
    ELSE IF r.type = "PushChunk" /\ x.pending \ {r.inner.chunk_id} # {} THEN "open"
    ELSE "done"

Deliver(type) ==
    \E r \in net_resp :
        /\ r.msg.type = type
        /\ net_resp' = net_resp \ {r}
        /\ LET matches == {x \in a_out : Correlates(r.msg, x)}
           IN IF matches = {}
              THEN UNCHANGED <<a_out, xlog, a_container, a_chunks>>
              ELSE \E x \in matches :
                     /\ a_out' = Settle(x, r.msg)
                     /\ xlog' = [xlog EXCEPT
                                   ![x.xid].resps = Append(@, r.msg),
                                   ![x.xid].state = Outcome(x, r.msg)]
                     /\ a_container' =
                            IF type = "PushContainer"
                            THEN <<r.msg.inner.container>>
                            ELSE a_container
                     /\ a_chunks' =
                            IF type = "PushChunk"
                            THEN a_chunks \cup
                                   {[chunk_id |-> r.msg.inner.chunk_id,
                                     chunk |-> r.msg.inner.chunk]}
                            ELSE a_chunks
        /\ UNCHANGED <<b_payload, b_chunk_size, net_req, a_result, clashed>>
        /\ UNCHANGED p2pRest

OnActiveApps == Deliver("ActiveApps")
OnAppTopics == Deliver("AppTopics")
OnAccept == Deliver("Accept")
OnDecline == Deliver("Decline")
OnPost == Deliver("Post")
OnPushContainer == Deliver("PushContainer")
OnReject == Deliver("Reject")
OnPushChunk == Deliver("PushChunk")

\* A reassembles from the manifest and the chunks it holds at that moment.
DoReassemble ==
    /\ a_container # <<>>
    /\ a_result' = <<[result |-> Reassemble(a_container[1], a_chunks),
                      have |-> {c.chunk_id : c \in a_chunks}]>>
    /\ a_result' # a_result
    /\ UNCHANGED <<b_payload, b_chunk_size, a_out, net_req, net_resp,
                   a_container, a_chunks, xlog, clashed>>
    /\ UNCHANGED p2pRest

NextPull ==
    \/ SendPullContainer
    \/ SendPullChunk
    \/ HandlePullContainer
    \/ HandlePullChunk
    \/ OnPushContainer
    \/ OnReject
    \/ OnPushChunk
    \/ DoReassemble

NextExchange ==
    \/ SendPullContainer
    \/ SendPullChunk
    \/ HandlePullContainer
    \/ HandlePullChunk
    \/ OnPushContainer
    \/ OnReject
    \/ OnPushChunk

Next ==
    \/ SendListApps
    \/ SendListTopics
    \/ SendProposeTopic
    \/ SendPost
    \/ SendRead
    \/ HandleListApps
    \/ HandleListTopics
    \/ HandleProposeTopic
    \/ HandlePost
    \/ HandleRead
    \/ SpontaneousPost
    \/ OnActiveApps
    \/ OnAppTopics
    \/ OnAccept
    \/ OnDecline
    \/ OnPost
    \/ NextExchange

Spec == Init /\ [][Next]_vars

InitPull == InitP2P(P2PPayloads, 1 .. MaxChunkSize)
SpecPull == InitPull /\ [][NextPull]_vars

----------------------------------------------------------------------------
\* C10: every message in flight has a StormApp as its storm_app(), and that
\* app is the one the message was sent under: System for the discovery
\* pair, the originating app for every other variant.
C10_StormAppTotal ==
    /\ \A q \in net_req :
          IsStormApp(storm_app(q.msg)) /\ storm_app(q.msg) = q.origin
    /\ \A r \in net_resp :
          IsStormApp(storm_app(r.msg)) /\ storm_app(r.msg) = r.origin

LegalResponses(type) ==
    CASE type = "ListApps" -> {"ActiveApps"}
      [] type = "ListTopics" -> {"AppTopics"}
      [] type = "ProposeTopic" -> {"Decline"}
      [] type = "Post" -> {"Accept", "Decline"}
      [] type = "Read" -> {"Post", "Decline"}
      [] type = "PullContainer" -> {"PushContainer", "Reject"}
      [] type = "PullChunk" -> {"PushChunk", "Reject"}

Types(msgs) == {m.type : m \in msgs}
Range(seq) == {seq[i] : i \in DOMAIN seq}

\* What holds of the i-th exchange.  B answers it with messages of the
\* kinds legal for the request: one message at most, or for a PullChunk one
\* Reject alone or one PushChunk per chunk asked for; ListTopics is answered
\* under its app.  What A attributes to it is of a legal kind too, and only
\* the last message attributed can be terminal: before it come PushChunks
\* that left chunks awaited.  Once A took a refusal for it, the exchange is
\* not outstanding any more.
ExchangeLegal(i) ==
    LET e == xlog[i]
        answers == e.sent \cup Range(e.resps)
    IN /\ Types(answers) \subseteq LegalResponses(e.req.type)
       /\ e.req.type # "PullChunk" =>
             Cardinality(e.sent) <= 1 /\ Len(e.resps) <= 1
       /\ e.req.type = "PullChunk" =>
             /\ "Reject" \in Types(e.sent) => Cardinality(e.sent) = 1
             /\ \A m \in e.sent : m.type = "PushChunk" =>
                   m.inner.chunk_id \in e.req.inner.chunk_ids
             /\ \A j \in 1 .. Len(e.resps) - 1 : e.resps[j].type = "PushChunk"
             /\ Cardinality({j \in 1 .. Len(e.resps) : e.resps[j].type = "PushChunk"})
                   <= Cardinality(e.req.inner.chunk_ids)
       /\ \A m \in answers : m.type = "AppTopics" => m.inner.app = e.req.inner.app
       /\ e.state = "refused" =>
             /\ e.resps # <<>>
             /\ e.resps[Len(e.resps)].type \in Refusals
       /\ e.state # "open" => \A x \in a_out : x.xid # i

\* A step that takes a refusal off the network puts no request on it.
NoRetry ==
    (\E r \in net_resp : r.msg.type \in Refusals /\ r \notin net_resp')
        => net_req' \subseteq net_req

\* C8: every exchange gets at most one terminal response, of a kind legal
\* for its request, and a refused exchange is over: the step that takes the
\* refusal sends nothing, and no request of that exchange is left.
C8_TerminalResponse ==
    /\ [](\A i \in DOMAIN xlog : ExchangeLegal(i))
    /\ [][NoRetry]_vars

\* A Read was declined and a PullChunk was rejected.
C8_Witness ==
    /\ \E i \in DOMAIN xlog :
          xlog[i].req.type = "Read" /\ xlog[i].state = "refused"
    /\ \E i \in DOMAIN xlog :
          xlog[i].req.type = "PullChunk" /\ xlog[i].state = "refused"

\* C9: when A has reassembled from the manifest B pushed, the outcome is the
\* bytes B published, as many as the manifest's size says, if A held every
\* chunk the manifest lists, and the MissingChunk error if it did not.
C9_Reassembly ==
    a_result # <<>> =>
        LET r == a_result[1]
            c == a_container[1]
            listed == {c.chunks.head[i] : i \in 1 .. Len(c.chunks.head)}
        IN /\ c = BContainer
           /\ r.result.ok <=> listed \subseteq r.have
           /\ r.result.ok => /\ r.result.val = b_payload
                             /\ Len(r.result.val) = c.size
           /\ ~r.result.ok => r.result.err = "MissingChunk"

\* A reassembled a payload of several chunks, one of them listed twice.
C9_Witness ==
    /\ a_result # <<>>
    /\ a_result[1].result.ok
    /\ Len(a_container[1].chunks.head) >= 3
    /\ Cardinality(a_result[1].have) = 2

\* A tried to reassemble with a listed chunk missing.
C9_WitnessMissing ==
    /\ a_result # <<>>
    /\ ~a_result[1].result.ok
    /\ a_chunks # {}
----------------------------------------------------------------------------
(***************************************************************************)
(* SpecWire: a message of any variant is built from field values of every  *)
(* class, put on the wire and read back.                                   *)
(***************************************************************************)
\* Apps that From<u16> yields (System, Chat, Storage, Future(5),
\* Vendor(32769)) and apps it does not (Future(1), Vendor(0)).
WireApps ==
    {System, Chat, Storage, Future(5), Vendor(32769), Future(1), Vendor(0)}
AllApps == {StormApp_from(c) : c \in U16}
WireAppSets ==
    {{}, {Chat}, {System, Chat, Storage}, {Vendor(32769), Future(5)},
     {Chat, Future(1)}, {Vendor(0)}, AllApps}

ZeroId == RawId([i \in 1 .. ID_LEN |-> 0])
WireContainers ==
    {Container_new(0, "text/plain", "", n, Plain(list)).val :
        n \in {0, 1}, list \in {<<>>, <<StrayChunkId>>}}
WireContainerIds ==
    {Container_container_id(Container_new(0, "text/plain", "", 0, Plain(<<>>)).val),
     ZeroId}
WireChunks == {Plain(<<>>), Plain(<<0>>), Run(1, U24_MAX)}
WireChunkIds == {Chunk_chunk_id(Plain(<<>>)), StrayChunkId}
WireTopics ==
    {Topic(<<>>, <<>>), Topic(<<7>>, <<ZeroId>>),
     Topic(<<7, 8>>, <<UnknownContainerId, ZeroId>>)}
WireMesgs ==
    {Mesg(ZeroId, <<>>, <<>>),
     Mesg(Topic_mesg_id(Topic(<<>>, <<>>)), <<9>>, <<UnknownContainerId>>)}
WireMesgIds ==
    {ZeroId, Topic_mesg_id(Topic(<<>>, <<>>)),
     Mesg_mesg_id(Mesg(ZeroId, <<4>>, <<>>))}

InitWire ==
    /\ \/ w_msg = ListApps
       \/ \E apps \in WireAppSets : w_msg = ActiveApps(apps)
       \/ \E a \in WireApps : w_msg = ListTopics(a)
       \/ \E a \in WireApps, topics \in SUBSET WireMesgIds :
             w_msg = AppTopics(a, topics)
       \/ \E t \in WireTopics : w_msg = ProposeTopic(t)
       \/ \E a \in WireApps, m \in WireMesgs : w_msg = Post(a, m)
       \/ \E a \in WireApps, id \in WireMesgIds :
             w_msg \in {Read(a, id), Decline(a, id), Accept(a, id)}
       \/ \E a \in WireApps, id \in WireMesgIds, cid \in WireContainerIds :
             w_msg \in {PullContainer(a, id, cid), Reject(a, id, cid)}
       \/ \E a \in WireApps, cid \in WireContainerIds, c \in WireContainers :
             w_msg = PushContainer(a, cid, c)
       \/ \E a \in WireApps, cid \in WireContainerIds,
             ks \in SUBSET WireChunkIds :
             w_msg = PullChunk(a, ZeroId, cid, ks)
       \/ \E a \in WireApps, k \in WireChunkIds, c \in WireChunks :
             w_msg = PushChunk(a, ZeroId, k, c)
    /\ w_pc = "built"
    /\ w_wire = <<>>
    /\ w_out = <<>>
    /\ AppIdle
    /\ IdIdle
    /\ CkIdle
    /\ P2PIdle
    /\ MutIdle
    /\ TmIdle

\* let wire = msg.serialize()
WireEncode ==
    /\ w_pc = "built"
    /\ w_wire' = Messages_encode(w_msg)
    /\ w_pc' = "encoded"
    /\ UNCHANGED <<w_msg, w_out>>
    /\ UNCHANGED wireRest

\* let out = unmarshaller.unmarshall(wire)
WireDecode ==
    /\ w_pc = "encoded"
    /\ w_wire.ok
    /\ w_out' = Messages_decode(w_wire.val)
    /\ w_pc' = "decoded"
    /\ UNCHANGED <<w_msg, w_wire>>
    /\ UNCHANGED wireRest

NextWire ==
    \/ WireEncode
    \/ WireDecode

SpecWire == InitWire /\ [][NextWire]_vars

TypeCodesDistinct ==
    \A t1, t2 \in MessageTypes : TypeCode(t1) = TypeCode(t2) => t1 = t2

\* Every StormApp value in the message is one that From<u16> yields.
CanonicalApps(m) ==
    CASE m.type \in {"ListApps", "ProposeTopic"} -> TRUE
      [] m.type = "ActiveApps" -> \A a \in m.inner.apps : Canonical(a)
      [] OTHER -> Canonical(m.inner.app)

\* C11 as stated: the variants have pairwise distinct type codes, and
\* whatever the message, decoding its wire encoding gives the message back.
C11_WireRoundTrip ==
    /\ TypeCodesDistinct
    /\ w_pc = "decoded" => w_out = Ok(w_msg)

\* C11: the variants have pairwise distinct type codes, and decoding the
\* wire encoding of a message gives the message back when every StormApp
\* value in it is one that From<u16> yields.
C11_WireRoundTripCanonical ==
    /\ TypeCodesDistinct
    /\ (w_pc = "decoded" /\ CanonicalApps(w_msg)) => w_out = Ok(w_msg)

\* A PullChunk for two chunks under a vendor app was put on the wire and
\* read back.
C11_Witness ==
    /\ w_pc = "decoded"
    /\ w_msg.type = "PullChunk"
    /\ w_msg.inner.app = Vendor(32769)
    /\ Cardinality(w_msg.inner.chunk_ids) = 2
    /\ w_out = Ok(w_msg)
----------------------------------------------------------------------------
\* The id fields of a push message are the ids of what it carries.
PushConsistent(m) ==
    /\ m.type = "PushContainer" =>
           m.inner.container_id = Container_container_id(m.inner.container)
    /\ m.type = "PushChunk" =>
           m.inner.chunk_id = Chunk_chunk_id(m.inner.chunk)

\* C15: in every PushContainer and PushChunk that is built, and in every
\* one that is decoded from the wire, the container_id field is the id of
\* the embedded container and the chunk_id field is the id of the embedded
\* chunk.
C15_PushSelfConsistent ==
    /\ w_pc # "idle" => PushConsistent(w_msg)
    /\ (w_pc = "decoded" /\ w_out.ok) => PushConsistent(w_out.val)
----------------------------------------------------------------------------
\* C12: whatever operation was called on whatever input, it returned: a
\* value or an error value, never a panic.
C12_NoPanic == ck_op # "idle" => ~IsPanic(ck_out)
----------------------------------------------------------------------------
(***************************************************************************)
(* SpecMut: a Chunk is constructed and its id taken; its holder then uses  *)
(* the public interface of Chunk (chunk.rs): chunk_id, Deref, AsRef,       *)
(* Clone, and DerefMut.                                                    *)
(***************************************************************************)
MaxMutLen == 2

\* The byte vectors a chunk is constructed from or overwritten with.
MutVecs == {Plain(seq) : seq \in BytesUpTo(MaxMutLen)}

InitMut ==
    /\ \E v \in MutVecs :
           /\ mc_built = Chunk_try_from_vec(v).val
           /\ mc_chunk = mc_built
           /\ mc_id = Chunk_chunk_id(mc_built)
    /\ mc_op = "Chunk::try_from"
    /\ AppIdle /\ IdIdle /\ CkIdle /\ P2PIdle /\ WireIdle /\ TmIdle

\* chunk.chunk_id()
MutChunkId ==
    /\ mc_op' = "chunk_id"
    /\ mc_id' = Chunk_chunk_id(mc_chunk)
    /\ UNCHANGED <<mc_built, mc_chunk>>
    /\ UNCHANGED mutRest

\* chunk.deref(), chunk.as_ref(), chunk.clone(): the bytes are read, the
\* chunk is as it was.
MutRead ==
    \E op \in {"deref", "as_ref", "clone"} :
        /\ mc_op' = op
        /\ mc_chunk' = CASE op = "deref" -> Chunk_deref(mc_chunk)
                         [] op = "as_ref" -> Chunk_as_ref(mc_chunk)
                         [] op = "clone" -> Chunk_clone(mc_chunk)
        /\ UNCHANGED <<mc_built, mc_id>>
        /\ UNCHANGED mutRest

\* *chunk.deref_mut() = written
MutAssign ==
    \E written \in MutVecs :
        /\ MediumVec_try_from(written).ok
        /\ mc_op' = "deref_mut: assign"
        /\ mc_chunk' = Chunk_deref_mut_write(mc_chunk, written)
        /\ UNCHANGED <<mc_built, mc_id>>
        /\ UNCHANGED mutRest

\* core::mem::take(chunk.deref_mut()): the contents are moved out and the
\* default MediumVec, the empty one, is left in their place.
MutTake ==
    /\ mc_op' = "deref_mut: take"
    /\ mc_chunk' = Chunk_deref_mut_write(mc_chunk, Chunk_default)
    /\ UNCHANGED <<mc_built, mc_id>>
    /\ UNCHANGED mutRest

NextMut ==
    \/ MutChunkId
    \/ MutRead
    \/ MutAssign
    \/ MutTake

SpecMut == InitMut /\ [][NextMut]_vars

\* C13: a Chunk is immutable once constructed: whatever its holder does
\* with it, its contents are those it was constructed with and its chunk id
\* is the one it had at construction.
C13_ChunkImmutable ==
    mc_op # "idle" =>
        /\ mc_chunk = mc_built
        /\ mc_id = Chunk_chunk_id(mc_built)
        /\ Chunk_chunk_id(mc_chunk) = Chunk_chunk_id(mc_built)
----------------------------------------------------------------------------
(***************************************************************************)
(* SpecMesgId: a Topic and a Mesg are built from their public fields and   *)
(* the id of each is taken (mesg.rs).                                      *)
(***************************************************************************)
MaxTmBody == 1

\* A body of ID_LEN zero bytes, and the identifier whose bytes are the
\* two-byte length ID_LEN followed by zeros.
ZeroBody == [i \in 1 .. ID_LEN |-> 0]
PrefixId == RawId([i \in 1 .. ID_LEN |-> IF i = 1 THEN ID_LEN ELSE 0])

TmBodies == BytesUpTo(MaxTmBody) \cup {ZeroBody}
TmContainerIds == {<<>>, <<UnknownContainerId>>}
TmTopics == {Topic(body, cids) : body \in TmBodies, cids \in TmContainerIds}
TmParents == {ZeroId, PrefixId, Topic_mesg_id(Topic(<<>>, <<>>))}
TmMesgs ==
    {Mesg(parent, body, cids) :
        parent \in TmParents, body \in BytesUpTo(MaxTmBody),
        cids \in TmContainerIds}

InitMesgId ==
    /\ tm_topic \in TmTopics
    /\ tm_mesg \in TmMesgs
    /\ tm_ids = <<<<>>, <<>>>>
    /\ AppIdle /\ IdIdle /\ CkIdle /\ P2PIdle /\ WireIdle /\ MutIdle

\* tm_topic.mesg_id()
TopicMesgId ==
    /\ tm_ids[1] = <<>>
    /\ tm_ids' = [tm_ids EXCEPT ![1] = Topic_mesg_id(tm_topic)]
    /\ UNCHANGED <<tm_topic, tm_mesg>>
    /\ UNCHANGED tmRest

\* tm_mesg.mesg_id()
MesgMesgId ==
    /\ tm_ids[2] = <<>>
    /\ tm_ids' = [tm_ids EXCEPT ![2] = Mesg_mesg_id(tm_mesg)]
    /\ UNCHANGED <<tm_topic, tm_mesg>>
    /\ UNCHANGED tmRest

NextMesgId ==
    \/ TopicMesgId
    \/ MesgMesgId

SpecMesgId == InitMesgId /\ [][NextMesgId]_vars

\* C14: a Topic and a Mesg never receive the same MesgId: the serialization
\* of every topic differs from the serialization of every message.
C14_TopicMesgDistinct ==
    (Len(tm_ids) = 2 /\ tm_ids[1] # <<>> /\ tm_ids[2] # <<>>) =>
        /\ Topic_strict_encode(tm_topic) # Mesg_strict_encode(tm_mesg)
        /\ tm_ids[1] # tm_ids[2]
=============================================================================
